---------------------------- MODULE Spec2Model ----------------------------
(***************************************************************************)
(* Temple Parties backend: the request handlers of app/routers/parties.py  *)
(* and app/routers/admin.py over the external relational store.            *)
(*                                                                         *)
(* A handler is a short sequence of independent store calls.  The store    *)
(* serialises single calls and nothing else, so each store call is one     *)
(* atomic step (with the local computation that follows it) and the calls  *)
(* of concurrent requests interleave freely.  Resolving the caller         *)
(* (Depends(require_auth)) asks the identity service, not the store, and   *)
(* is part of the step of the handler's first store call.                  *)
(*                                                                         *)
(* req is the bag of requests being handled: for each, its route, its      *)
(* position in the handler and the handler's locals.  A request that has   *)
(* answered stays in the bag, holding its response, until the next request *)
(* arrives.                                                                *)
(*                                                                         *)
(* A store call that raises is modelled where the handler catches it       *)
(* (the roster insert, the listing insert) and for the counter write.      *)
(***************************************************************************)
EXTENDS Integers, FiniteSets, Sequences, Bags, TLC

\* ---------------------------------------------------------------- bounds
MaxReq == 2          \* requests being handled at the same time
MaxParties == 2      \* listing ids: the store hands out 1..MaxParties
MaxCount == 2        \* an anonymous increment arrives only below this count
MaxDay == 8          \* the calendar runs over the days 0..MaxDay; day 0 is a Monday

PartyIds == 1..MaxParties
Users == {"u1", "u2"}
Anonymous == "anonymous"          \* no bearer credential that verifies
Credentials == Users \cup {Anonymous}

\* ---------------------------------------------------------------- text
\* a string is the sequence of its characters
Rep(ch, n) == [i \in 1..n |-> ch]

\* str.strip(): without the leading and trailing whitespace
Strip(s) ==
    LET inked == {i \in 1..Len(s) : s[i] # " "}
    IN  IF inked = {} THEN <<>>
        ELSE SubSeq(s, CHOOSE i \in inked : \A j \in inked : i <= j,
                       CHOOSE i \in inked : \A j \in inked : i >= j)

NoRow == [status |-> "none", going_count |-> 0, created_by |-> "none",
          title |-> <<>>, host |-> <<>>, day |-> "none", weekend_of |-> 0]
NoProfile == [id |-> "none", is_admin |-> FALSE, username |-> <<>>]
\* the profile of an administrator: the flag is set in the store directly
AdminProfile(u) == [id |-> u, is_admin |-> TRUE, username |-> <<"a", "d">>]

VARIABLES
    parties,        \* table parties: id -> row, NoRow when no row has the id
    next_id,        \* the id the store gives the next inserted listing
    party_going,    \* table party_going: <<party_id, user_id>> -> number of rows
    user_profiles,  \* table user_profiles: id -> row, NoProfile when none
    today,          \* date.today(), as a day number; weekday() is today % 7
    req,            \* the requests being handled, and the responses sent
    serial,         \* TRUE when the server handles one request at a time
    hist            \* serial runs: the last two requests, oldest first

vars == <<parties, next_id, party_going, user_profiles, today, req, serial, hist>>
store == <<parties, next_id, party_going, user_profiles>>

\* ------------------------------------------------------------ the store
\* variant: a check that finds a row for every id
Exists_Always(p) == TRUE
\* variant: a check that finds approved listings only
Exists_Approved(p) == parties[p] # NoRow /\ parties[p].status = "approved"
Exists(p) == parties[p] # NoRow

RECURSIVE SumRows(_, _, _)
SumRows(pg, p, us) ==
    IF us = {} THEN 0
    ELSE LET u == CHOOSE x \in us : TRUE
         IN  pg[<<p, u>>] + SumRows(pg, p, us \ {u})

\* party_going.select("*", count="exact").eq("party_id", p)
CountRows(pg, p) == SumRows(pg, p, Users)

\* party_going.select("*").eq("party_id", p).eq("user_id", u): any row?
HasRow(pg, p, u) == pg[<<p, u>>] > 0

\* the uniqueness rule on (party_id, user_id): the insert of a second row
\* for a pair raises and stores nothing
\* variant: the store without the uniqueness rule
InsertRaises_Never(pg, p, u) == FALSE
InsertRaises(pg, p, u) == pg[<<p, u>>] > 0

\* party_going.insert({"party_id": p, "user_id": u})
InsertGoing(pg, p, u) ==
    IF InsertRaises(pg, p, u) THEN pg
    ELSE [pg EXCEPT ![<<p, u>>] = @ + 1]

\* party_going.delete().eq("party_id", p).eq("user_id", u)
\* variant: a delete without the filter on user_id
DeleteGoing_WholeRoster(pg, p, u) ==
    [k \in DOMAIN pg |-> IF k[1] = p THEN 0 ELSE pg[k]]
DeleteGoing(pg, p, u) == [pg EXCEPT ![<<p, u>>] = 0]

\* parties.update({"going_count": n}).eq("id", p); no row, nothing written
UpdateCount(ps, p, n) ==
    IF ps[p] = NoRow THEN ps
    ELSE [ps EXCEPT ![p].going_count = n]

\* parties.update({"status": s}).eq("id", p); no row, nothing written
UpdateStatus(ps, p, s) ==
    IF ps[p] = NoRow THEN ps
    ELSE [ps EXCEPT ![p].status = s]

\* ------------------------------------------------------------- requests
\* UserUpdate: the body of set-username; is_admin is not a field of the model
NoData == [username |-> <<>>, is_admin |-> FALSE]

NoReq == [op |-> "none", pc |-> "none", party |-> 1, user |-> Anonymous,
          data |-> NoData, day |-> "absent", detail |-> "",
          email |-> <<>>, otp_called |-> FALSE,
          is_currently_going |-> FALSE, current_total |-> 0,
          new_count |-> 0, status |-> 0, result |-> <<>>]

InFlight(q) == q.pc # "done"

Handled == BagToSet(req)
Running == {q \in Handled : InFlight(q)}
NumRunning == BagCardinality([q \in Running |-> req[q]])

\* a request of route op on listing p by caller c, about to run step pc
Fresh(op, p, c, pc) == [NoReq EXCEPT !.op = op, !.party = p, !.user = c, !.pc = pc]

\* the response: the status code and, for a 200 of the two attendance
\* routes, the body {"going", "goingCount"}; the other locals end here
Respond(q, code) ==
    IF code = 200 /\ q.op \in {"toggle", "anonymous"}
    THEN [q EXCEPT !.pc = "done", !.status = code, !.current_total = 0]
    ELSE [NoReq EXCEPT !.pc = "done", !.status = code, !.op = q.op,
                       !.party = q.party, !.user = q.user]

\* body of the 200 response of the attendance routes
RespGoing(q) == IF q.op = "anonymous" THEN TRUE ELSE ~q.is_currently_going
RespGoingCount(q) == q.new_count

\* what a serial run keeps of a request: the request (its response once it
\* has answered) and, from the moment it arrived, the caller's membership,
\* the roster's cardinality and the stored counter of its listing
Entry(q) ==
    [req |-> q,
     member0 |-> q.user \in Users /\ HasRow(party_going, q.party, q.user),
     card0 |-> CountRows(party_going, q.party),
     count0 |-> parties[q.party].going_count]

LastEntry == hist[Len(hist)]

\* a request arrives and runs its first step, which leaves it as q;
\* the responses sent before are no longer kept.  A serial server takes it
\* only when no request is being handled.
Arrive(q) ==
    /\ NumRunning < MaxReq
    /\ serial => Running = {}
    /\ req' = [x \in Running |-> req[x]] (+) SetToBag({q})
    /\ hist' = IF serial
               THEN (IF hist = <<>> THEN <<>> ELSE <<LastEntry>>) \o <<Entry(q)>>
               ELSE hist
    /\ UNCHANGED <<serial, today>>

\* a request in the bag runs one step, which takes it from q to q2
Move(q, q2) ==
    /\ q \in Running
    /\ req' = (req (-) SetToBag({q})) (+) SetToBag({q2})
    /\ hist' = IF serial THEN [hist EXCEPT ![Len(hist)].req = q2] ELSE hist
    /\ UNCHANGED <<serial, today>>

\* the Authorization header of a request -- absent, of another form than
\* "Bearer <token>", or of that form -- and what supabase.auth.get_user does
\* with its token: it raises, answers without a user, or answers a user
Headers ==
    [authorization : {"absent", "Basic", "Bearer"},
     get_user : {"raises", "no user"} \cup Users]

\* get_current_user: the user of the request, or None
\* variant: a resolver that verifies the token of a header of any form
get_current_user_AnyForm(h) ==
    IF h.authorization = "absent" THEN Anonymous
    ELSE IF h.get_user \in Users THEN h.get_user
    ELSE Anonymous
get_current_user(h) ==
    IF h.authorization = "absent" \/ h.authorization # "Bearer" THEN Anonymous
    ELSE IF h.get_user = "raises" THEN Anonymous
    ELSE IF h.get_user \in Users THEN h.get_user
    ELSE Anonymous

\* require_auth: 401 unless the bearer credential resolves to a user
require_auth(c) == c \in Users

\* variant: a gate that asks only for a profile
require_admin_AnyProfile(profiles, c) == profiles[c] # NoProfile
\* require_admin: user_profiles.select("is_admin").eq("id", user["id"])
require_admin(profiles, c) ==
    /\ profiles[c] # NoProfile
    /\ profiles[c].is_admin

\* ------------------------------------------- POST /parties/{id}/going
\* parties.select("id").eq("id", party_id)
toggle_going_exists(p, c) ==
    /\ Arrive(IF ~require_auth(c) THEN Respond(Fresh("toggle", p, c, "none"), 401)
              ELSE IF ~Exists(p) THEN Respond(Fresh("toggle", p, c, "none"), 404)
              ELSE Fresh("toggle", p, c, "read"))
    /\ UNCHANGED store

\* party_going.select("*").eq(party_id).eq(user_id)
toggle_going_read(q) ==
    /\ q.op = "toggle" /\ q.pc = "read"
    /\ Move(q, [q EXCEPT !.pc = "mutate",
                         !.is_currently_going = HasRow(party_going, q.party, q.user)])
    /\ UNCHANGED store

\* is_currently_going: the row is deleted
toggle_going_delete(q) ==
    /\ q.op = "toggle" /\ q.pc = "mutate"
    /\ q.is_currently_going
    /\ party_going' = DeleteGoing(party_going, q.party, q.user)
    /\ Move(q, [q EXCEPT !.pc = "count"])
    /\ UNCHANGED <<parties, next_id, user_profiles>>

\* try: insert ... except Exception: pass -- whether or not the insert
\* raised, the handler goes on to the count
\* variant: a handler without the try/except, which answers 500 when the
\* insert raises
AfterInsert_Abort(q, raised) ==
    IF raised THEN Respond(q, 500) ELSE [q EXCEPT !.pc = "count"]
AfterInsert(q, raised) == [q EXCEPT !.pc = "count"]

\* otherwise the row is inserted, or the insert raises on the uniqueness
\* rule
toggle_going_insert(q) ==
    /\ q.op = "toggle" /\ q.pc = "mutate"
    /\ ~q.is_currently_going
    /\ party_going' = InsertGoing(party_going, q.party, q.user)
    /\ Move(q, AfterInsert(q, InsertRaises(party_going, q.party, q.user)))
    /\ UNCHANGED <<parties, next_id, user_profiles>>

\* the insert raises for another reason (the store cannot be reached, the
\* listing is gone) and stores nothing
toggle_going_insert_fails(q) ==
    /\ q.op = "toggle" /\ q.pc = "mutate"
    /\ ~q.is_currently_going
    /\ Move(q, AfterInsert(q, TRUE))
    /\ UNCHANGED store

\* new_count: party_going.select("*", count="exact").eq(party_id), whatever
\* the request did and whatever the stored counter is
\* variant: a handler that steps the stored counter up or down by one
ToggleNewCount_ByDelta(pg, q) ==
    parties[q.party].going_count + (IF q.is_currently_going THEN -1 ELSE 1)
ToggleNewCount(pg, q) == CountRows(pg, q.party)

toggle_going_count(q) ==
    /\ q.op = "toggle" /\ q.pc = "count"
    /\ Move(q, [q EXCEPT !.pc = "write",
                         !.new_count = ToggleNewCount(party_going, q)])
    /\ UNCHANGED store

\* parties.update({"going_count": new_count}).eq(id), and the response
toggle_going_write(q) ==
    /\ q.op = "toggle" /\ q.pc = "write"
    /\ parties' = UpdateCount(parties, q.party, q.new_count)
    /\ Move(q, Respond(q, 200))
    /\ UNCHANGED <<next_id, party_going, user_profiles>>

\* the counter write raises: nothing is written, the request answers 500
toggle_going_write_fails(q) ==
    /\ q.op = "toggle" /\ q.pc = "write"
    /\ Move(q, Respond(q, 500))
    /\ UNCHANGED store

\* -------------------------------- POST /parties/{id}/going/anonymous
\* parties.select("going_count").eq("id", party_id); no require_auth
increment_going_anonymous_exists(p) ==
    /\ parties[p].going_count < MaxCount
    /\ Arrive(IF ~Exists(p) THEN Respond(Fresh("anonymous", p, Anonymous, "none"), 404)
              ELSE [Fresh("anonymous", p, Anonymous, "count")
                      EXCEPT !.current_total = parties[p].going_count])
    /\ UNCHANGED store

\* new_count = tracked_count + max(0, current_total - tracked_count) + 1
\* variant: the roster's cardinality plus one, whatever the stored counter
AnonymousNewCount_FromRoster(current_total, tracked_count) == tracked_count + 1
AnonymousNewCount(current_total, tracked_count) ==
    LET anonymous_count == IF current_total - tracked_count > 0
                           THEN current_total - tracked_count ELSE 0
    IN  tracked_count + anonymous_count + 1

\* tracked_count: party_going.select("*", count="exact").eq(party_id)
increment_going_anonymous_count(q) ==
    /\ q.op = "anonymous" /\ q.pc = "count"
    /\ Move(q, [q EXCEPT !.pc = "write", !.current_total = 0,
                         !.new_count = AnonymousNewCount(q.current_total,
                                           CountRows(party_going, q.party))])
    /\ UNCHANGED store

\* parties.update({"going_count": new_count}).eq(id), and the response
increment_going_anonymous_write(q) ==
    /\ q.op = "anonymous" /\ q.pc = "write"
    /\ parties' = UpdateCount(parties, q.party, q.new_count)
    /\ Move(q, Respond(q, 200))
    /\ UNCHANGED <<next_id, party_going, user_profiles>>

\* ------------------------------------------------------- POST /parties
\* get_current_weekend(): the anchor Friday for the day number d
Weekday(d) == d % 7
\* variant: the days until the next Friday, without the branch for
\* Saturday and Sunday
get_current_weekend_Upcoming(d) == d + ((4 - Weekday(d)) % 7)
get_current_weekend(d) ==
    LET days_until_friday == IF Weekday(d) > 4 THEN ((4 - Weekday(d)) % 7) - 7
                             ELSE (4 - Weekday(d)) % 7
    IN  d + days_until_friday

\* PartyCreate: the fields of the request body the model declares and their
\* bounds.  Other members of the body (an id, a status, a going_count, a
\* created_by) are not fields of the model.
MaxTitle == 50
MaxHost == 30
Days == {"friday", "saturday"}

\* Field(min_length=1, max_length=..) and Literal["friday", "saturday"],
\* checked on the text as sent; strip_whitespace runs on a valid field
ValidBody(data) ==
    /\ Len(data.title) >= 1 /\ Len(data.title) <= MaxTitle
    /\ Len(data.host) >= 1 /\ Len(data.host) <= MaxHost
    /\ data.day \in Days

\* the row the handler inserts: counter, creator, status and weekend are the
\* server's
\* variant: a handler that lets the body's members override the server's
NewParty_FromBody(u, data, weekend) ==
    [status |-> IF data.status = "none" THEN "pending" ELSE data.status,
     going_count |-> data.going_count,
     created_by |-> IF data.created_by = "none" THEN u ELSE data.created_by,
     title |-> Strip(data.title), host |-> Strip(data.host), day |-> data.day,
     weekend_of |-> weekend]
NewParty(u, data, weekend) ==
    [status |-> "pending", going_count |-> 0, created_by |-> u,
     title |-> Strip(data.title), host |-> Strip(data.host), day |-> data.day,
     weekend_of |-> weekend]

\* request bodies: a plain one, one that also carries the members a client
\* must not set, bodies at and beyond the bounds of title, host and day, and
\* titles with surrounding whitespace, of whitespace only and empty
PlainBody ==
    [title |-> <<"A">>, host |-> <<"A">>, day |-> "friday",
     status |-> "none", going_count |-> 0, created_by |-> "none"]
Bodies ==
    {PlainBody,
     [PlainBody EXCEPT !.day = "saturday", !.status = "approved",
                       !.going_count = 1, !.created_by = "u1"],
     [PlainBody EXCEPT !.title = Rep("A", MaxTitle)],
     [PlainBody EXCEPT !.title = Rep("A", MaxTitle + 1)],
     [PlainBody EXCEPT !.host = Rep("A", MaxHost + 1)],
     [PlainBody EXCEPT !.title = <<" ", "A", " ">>],
     [PlainBody EXCEPT !.title = <<" ", " ">>],
     [PlainBody EXCEPT !.title = <<>>],
     [PlainBody EXCEPT !.day = "monday"]}

\* a listing created on day 0 from the plain body
FirstListing(u) == NewParty(u, PlainBody, get_current_weekend(0))

\* a listing as create_party stores it, since moderated and counted, of the
\* weekend of Friday w
Listed(status, day, w, n) ==
    [FirstListing("u2") EXCEPT !.status = status, !.day = day,
                               !.weekend_of = w, !.going_count = n]

\* parties.insert(party_data): the store assigns the id
create_party_insert(c, data) ==
    /\ next_id \in PartyIds
    /\ require_auth(c)
    /\ ValidBody(data)
    /\ Arrive(Respond(Fresh("create", next_id, c, "none"), 200))
    /\ parties' = [parties EXCEPT
                     ![next_id] = NewParty(c, data, get_current_weekend(today))]
    /\ next_id' = next_id + 1
    /\ UNCHANGED <<party_going, user_profiles>>

\* no caller: 401; a body the model rejects: the framework's 422; the insert
\* raises: except Exception -> 400
create_party_rejected(c, data) ==
    /\ Arrive(Respond(Fresh("create", 1, c, "none"),
                      IF ~require_auth(c) THEN 401
                      ELSE IF ~ValidBody(data) THEN 422
                      ELSE 400))
    /\ UNCHANGED store

\* ---------------------------------------------------- GET /parties/{id}
\* parties.select("*").eq("id", party_id): result.data
\* variant: a lookup that, like the listing query, sees approved rows only
get_party_select_Approved(ps, p) ==
    IF ps[p] # NoRow /\ ps[p].status = "approved" THEN <<ps[p]>> ELSE <<>>
get_party_select(ps, p) == IF ps[p] # NoRow THEN <<ps[p]>> ELSE <<>>

\* no Depends: the caller is not resolved.  if not result.data -> 404
get_party(p) ==
    /\ LET data == get_party_select(parties, p)
       IN  Arrive(IF data = <<>> THEN Respond(Fresh("get", p, Anonymous, "none"), 404)
                  ELSE [Respond(Fresh("get", p, Anonymous, "none"), 200) EXCEPT
                          !.result = data])
    /\ UNCHANGED store

\* ------------------------------------------------ DELETE /parties/{id}
\* party["created_by"] != user["id"] -> 403
\* variant: a handler without the ownership check
IsOwner_Anyone(row, u) == TRUE
IsOwner(row, u) == row.created_by = u

\* parties.select("*").eq("id", party_id), then the ownership check
delete_party_read(p, c) ==
    /\ Arrive(IF ~require_auth(c) THEN Respond(Fresh("delete", p, c, "none"), 401)
              ELSE IF ~Exists(p) THEN Respond(Fresh("delete", p, c, "none"), 404)
              ELSE IF ~IsOwner(parties[p], c)
                   THEN Respond(Fresh("delete", p, c, "none"), 403)
              ELSE Fresh("delete", p, c, "delete"))
    /\ UNCHANGED store

\* parties.delete().eq("id", party_id)
delete_party_delete(q) ==
    /\ q.op = "delete" /\ q.pc = "delete"
    /\ parties' = [parties EXCEPT ![q.party] = NoRow]
    /\ Move(q, Respond(q, 200))
    /\ UNCHANGED <<next_id, party_going, user_profiles>>

\* --------------------------------------------------- POST /auth/signup
\* str.lower() on the letters of the addresses below
UpperCase == <<"D", "E", "L", "M", "P", "S", "T", "U">>
LowerCase == <<"d", "e", "l", "m", "p", "s", "t", "u">>
LowerChar(ch) ==
    IF \E i \in 1..Len(UpperCase) : UpperCase[i] = ch
    THEN LowerCase[CHOOSE i \in 1..Len(UpperCase) : UpperCase[i] = ch]
    ELSE ch
Lower(s) == [i \in 1..Len(s) |-> LowerChar(s[i])]

\* str.endswith
EndsWith(s, suffix) ==
    /\ Len(s) >= Len(suffix)
    /\ SubSeq(s, Len(s) - Len(suffix) + 1, Len(s)) = suffix

TempleEdu == <<"t", "e", "m", "p", "l", "e", ".", "e", "d", "u">>

\* email.endswith("@temple.edu")
\* variant: a check of the suffix without the "@"
EmailAllowed_NoAt(email) == EndsWith(email, TempleEdu)
EmailAllowed(email) == EndsWith(email, <<"@">> \o TempleEdu)

\* EmailStr on the addresses below: one "@", something before it, and after
\* it a domain with a dot inside; no space
Positions(s, ch) == {i \in 1..Len(s) : s[i] = ch}
ValidEmail(s) ==
    /\ Cardinality(Positions(s, "@")) = 1
    /\ Positions(s, " ") = {}
    /\ LET at == CHOOSE i \in Positions(s, "@") : TRUE
       IN  /\ at > 1
           /\ \E i \in Positions(s, ".") : at + 1 < i /\ i < Len(s)

\* addresses: of the domain in lower, upper and mixed case, of domains that
\* contain or resemble it, of another domain, and two that are no addresses
Emails ==
    {<<"s", "@">> \o TempleEdu,
     <<"S", "@", "T", "E", "M", "P", "L", "E", ".", "E", "D", "U">>,
     <<"s", "@", "T", "e", "m", "p", "l", "e", ".", "E", "d", "u">>,
     <<"u", "@">> \o TempleEdu \o <<".", "f", "a", "k", "e", ".", "c", "o", "m">>,
     <<"u", "@", "f", "a", "k", "e", "-">> \o TempleEdu,
     <<"u", "@", "t", "e", "m", "p", "l", ".", "e", "d", "u">>,
     <<"u", "@">> \o TempleEdu \o <<"c", "a", "t", "i", "o", "n">>,
     <<"u", "@", "g", ".", "c", "o", "m">>,
     <<"@">> \o TempleEdu,
     <<"u", " ", "@">> \o TempleEdu}

\* no Depends: every caller.  A body that is no address: the framework's
\* 422; not of the domain: 400; else supabase.auth.sign_in_with_otp, which
\* sends the link or raises (except Exception -> 400)
signup(email, raises) ==
    /\ Arrive([Respond(Fresh("signup", 1, Anonymous, "none"),
                       IF ~ValidEmail(email) THEN 422
                       ELSE IF ~EmailAllowed(Lower(email)) THEN 400
                       ELSE IF raises THEN 400 ELSE 200)
                 EXCEPT !.email = email,
                        !.otp_called = ValidEmail(email) /\ EmailAllowed(Lower(email)),
                        !.detail = IF ValidEmail(email) /\ EmailAllowed(Lower(email)) /\ raises
                                   THEN "str(e)" ELSE ""])
    /\ UNCHANGED store

\* ------------------------------------------------------- GET /auth/me
\* user_profiles.select("*").eq("id", user["id"]): the profile, or None
get_me(c) ==
    /\ Arrive(IF ~require_auth(c) THEN Respond(Fresh("me", 1, c, "none"), 401)
              ELSE [Respond(Fresh("me", 1, c, "none"), 200) EXCEPT
                      !.result = IF user_profiles[c] = NoProfile THEN <<>>
                                 ELSE <<user_profiles[c]>>])
    /\ UNCHANGED store

\* ---------------------------------------------- POST /auth/set-username
MinUsername == 2

\* len(data.username) < 2 -> 400
UsernameRefused(username) == Len(username) < MinUsername

\* the row inserted for a caller without a profile
\* variant: a handler that copies is_admin from the request body
NewProfile_FromBody(u, data) ==
    [id |-> u, is_admin |-> data.is_admin, username |-> data.username]
NewProfile(u, data) == [id |-> u, is_admin |-> FALSE, username |-> data.username]

\* bodies: usernames of length 1, 2 and 3, with and without whitespace
\* around them, one of 51 characters, and a body that carries is_admin
UsernameBodies ==
    {[NoData EXCEPT !.username = n] :
        n \in {<<"a">>, <<"a", "b">>, <<" ", " ", " ">>, <<" ", "a", " ">>, Rep("a", 51)}}
    \cup {[username |-> <<"a", "b">>, is_admin |-> TRUE]}

\* detail of the 400 of the length check, and of the 400 that carries the
\* text of an exception of the store (str(e))
TooShortDetail == "Username must be at least 2 characters"
StoreDetail == "str(e)"

\* the length check, then user_profiles.select("*").eq("id", user["id"])
set_username_read(c, data) ==
    /\ Arrive(IF ~require_auth(c) THEN Respond(Fresh("username", 1, c, "none"), 401)
              ELSE IF UsernameRefused(data.username)
                   THEN [Respond(Fresh("username", 1, c, "none"), 400)
                           EXCEPT !.data = data, !.detail = TooShortDetail]
              ELSE [Fresh("username", 1, c,
                          IF user_profiles[c] # NoProfile THEN "update" ELSE "insert")
                       EXCEPT !.data = data])
    /\ UNCHANGED store

\* user_profiles.update({"username": data.username}).eq("id", user["id"])
set_username_update(q) ==
    /\ q.op = "username" /\ q.pc = "update"
    /\ user_profiles' = [user_profiles EXCEPT ![q.user].username = q.data.username]
    /\ Move(q, [Respond(q, 200) EXCEPT !.data = q.data])
    /\ UNCHANGED <<parties, next_id, party_going>>

\* the store keeps one profile row per id: an insert of a second one raises
ProfileInsertRaises(profiles, u) == profiles[u] # NoProfile

\* user_profiles.insert({"id", "username", "is_admin": False}); when the
\* insert raises: except Exception -> 400
set_username_insert(q) ==
    /\ q.op = "username" /\ q.pc = "insert"
    /\ IF ~ProfileInsertRaises(user_profiles, q.user)
       THEN /\ user_profiles' = [user_profiles EXCEPT ![q.user] = NewProfile(q.user, q.data)]
            /\ Move(q, [Respond(q, 200) EXCEPT !.data = q.data])
       ELSE /\ UNCHANGED user_profiles
            /\ Move(q, [Respond(q, 400) EXCEPT !.data = q.data, !.detail = StoreDetail])
    /\ UNCHANGED <<parties, next_id, party_going>>

\* ------------------------------------------ GET /admin/parties/pending
\* the ids of S, largest first
RECURSIVE Descending(_)
Descending(S) ==
    IF S = {} THEN <<>>
    ELSE LET m == CHOOSE x \in S : \A y \in S : y <= x
         IN  <<m>> \o Descending(S \ {m})

\* Depends(require_admin): 401 without a caller, 403 without the admin flag
get_pending_parties_gate(c) ==
    /\ Arrive(IF ~require_auth(c) THEN Respond(Fresh("pending", 1, c, "none"), 401)
              ELSE IF ~require_admin(user_profiles, c)
                   THEN Respond(Fresh("pending", 1, c, "none"), 403)
              ELSE Fresh("pending", 1, c, "read"))
    /\ UNCHANGED store

\* parties.select("*").eq("status", "pending").order("created_at", desc=True):
\* the store hands out ids in the order of creation
get_pending_parties(q) ==
    /\ q.op = "pending" /\ q.pc = "read"
    /\ Move(q, [Respond(q, 200) EXCEPT
                  !.result = Descending({p \in PartyIds : parties[p].status = "pending"})])
    /\ UNCHANGED store

\* ------------------------------- POST /admin/parties/{id}/approve|reject
\* Depends(require_admin): 401 without a caller, 403 without the admin flag
\* variant: a handler that looks the listing up before it asks for the flag
moderate_gate_ExistsFirst(op, p, c) ==
    /\ op \in {"approve", "reject"}
    /\ Arrive(IF ~require_auth(c) THEN Respond(Fresh(op, p, c, "none"), 401)
              ELSE IF ~Exists(p) THEN Respond(Fresh(op, p, c, "none"), 404)
              ELSE IF ~require_admin(user_profiles, c)
                   THEN Respond(Fresh(op, p, c, "none"), 403)
              ELSE Fresh(op, p, c, "read"))
    /\ UNCHANGED store
moderate_gate(op, p, c) ==
    /\ op \in {"approve", "reject"}
    /\ Arrive(IF ~require_auth(c) THEN Respond(Fresh(op, p, c, "none"), 401)
              ELSE IF ~require_admin(user_profiles, c)
                   THEN Respond(Fresh(op, p, c, "none"), 403)
              ELSE Fresh(op, p, c, "read"))
    /\ UNCHANGED store

\* party["status"] != "pending" -> 400
\* variant: a handler without the status check
IsPending_Always(row) == TRUE
IsPending(row) == row.status = "pending"

\* parties.select("*").eq("id", party_id), then the status check
moderate_read(q) ==
    /\ q.op \in {"approve", "reject"} /\ q.pc = "read"
    /\ Move(q, IF ~Exists(q.party) THEN Respond(q, 404)
               ELSE IF ~IsPending(parties[q.party]) THEN Respond(q, 400)
               ELSE [q EXCEPT !.pc = "write"])
    /\ UNCHANGED store

\* parties.update({"status": "approved"}).eq("id", party_id)
approve_party(q) ==
    /\ q.op = "approve" /\ q.pc = "write"
    /\ parties' = UpdateStatus(parties, q.party, "approved")
    /\ Move(q, Respond(q, 200))
    /\ UNCHANGED <<next_id, party_going, user_profiles>>

\* parties.update({"status": "rejected"}).eq("id", party_id)
reject_party(q) ==
    /\ q.op = "reject" /\ q.pc = "write"
    /\ parties' = UpdateStatus(parties, q.party, "rejected")
    /\ Move(q, Respond(q, 200))
    /\ UNCHANGED <<next_id, party_going, user_profiles>>

\* ------------------------------------------------------ specifications
\* the steps of the two attendance routes
GoingStep ==
    \/ \E p \in PartyIds, c \in Credentials : toggle_going_exists(p, c)
    \/ \E q \in Running : toggle_going_read(q)
    \/ \E q \in Running : toggle_going_delete(q)
    \/ \E q \in Running : toggle_going_insert(q)
    \/ \E q \in Running : toggle_going_insert_fails(q)
    \/ \E q \in Running : toggle_going_count(q)
    \/ \E q \in Running : toggle_going_write(q)
    \/ \E q \in Running : toggle_going_write_fails(q)
    \/ \E p \in PartyIds : increment_going_anonymous_exists(p)
    \/ \E q \in Running : increment_going_anonymous_count(q)
    \/ \E q \in Running : increment_going_anonymous_write(q)

\* the steps of create, delete, approve and reject
ListingStep ==
    \/ \E c \in Credentials, data \in Bodies : create_party_insert(c, data)
    \/ \E c \in Credentials, data \in Bodies : create_party_rejected(c, data)
    \/ \E p \in PartyIds, c \in Credentials : delete_party_read(p, c)
    \/ \E q \in Running : delete_party_delete(q)
    \/ \E op \in {"approve", "reject"}, p \in PartyIds, c \in Credentials :
          moderate_gate(op, p, c)
    \/ \E q \in Running : moderate_read(q)
    \/ \E q \in Running : approve_party(q)
    \/ \E q \in Running : reject_party(q)

\* an empty store; u1 holds the admin flag, which no route of this API sets
Init ==
    /\ parties = [p \in PartyIds |-> NoRow]
    /\ next_id = 1
    /\ party_going = [k \in PartyIds \X Users |-> 0]
    /\ user_profiles = [u \in Users |-> IF u = "u1" THEN AdminProfile(u)
                                      ELSE NoProfile]
    /\ today = 0
    /\ req = EmptyBag
    /\ serial = FALSE
    /\ hist = <<>>

\* every route, any interleaving
Next == GoingStep \/ ListingStep
Spec == Init /\ [][Next]_vars

\* one listing, created by u1 and still pending; the attendance routes
InitGoing ==
    /\ parties = [p \in PartyIds |-> IF p = 1 THEN FirstListing("u1") ELSE NoRow]
    /\ next_id = 2
    /\ party_going = [k \in PartyIds \X Users |-> 0]
    /\ user_profiles = [u \in Users |-> IF u = "u1" THEN AdminProfile(u)
                                      ELSE NoProfile]
    /\ today = 0
    /\ req = EmptyBag
    /\ serial = FALSE
    /\ hist = <<>>

NextGoing == GoingStep
SpecGoing == InitGoing /\ [][NextGoing]_vars

\* one pending listing, created by either user; delete, approve and reject
ModerationStep ==
    \/ \E p \in PartyIds, c \in Credentials : delete_party_read(p, c)
    \/ \E q \in Running : delete_party_delete(q)
    \/ \E op \in {"approve", "reject"}, p \in PartyIds, c \in Credentials :
          moderate_gate(op, p, c)
    \/ \E q \in Running : moderate_read(q)
    \/ \E q \in Running : approve_party(q)
    \/ \E q \in Running : reject_party(q)

InitListing ==
    /\ \E c \in Users :
          parties = [p \in PartyIds |-> IF p = 1 THEN FirstListing(c) ELSE NoRow]
    /\ next_id = 2
    /\ party_going = [k \in PartyIds \X Users |-> 0]
    /\ user_profiles = [u \in Users |-> IF u = "u1" THEN AdminProfile(u)
                                      ELSE NoProfile]
    /\ today = 0
    /\ req = EmptyBag
    /\ serial = FALSE
    /\ hist = <<>>

NextListing == ModerationStep
SpecListing == InitListing /\ [][NextListing]_vars

\* toggles, in any interleaving, on listing 2, which is approved, created
\* by u2 and of last week's Friday, with u2 in its roster or not, next to
\* listing 1, which is pending and has u1 in its roster
InitToggle ==
    /\ parties = [p \in PartyIds |->
                    IF p = 1 THEN [FirstListing("u1") EXCEPT !.going_count = 1]
                    ELSE IF p = 2 THEN Listed("approved", "saturday",
                                              get_current_weekend(0) - 7, 1)
                    ELSE NoRow]
    /\ next_id = 3
    /\ \E n \in 0..1 :
          party_going = [k \in PartyIds \X Users |->
                           IF k = <<2, "u2">> THEN n
                           ELSE IF k = <<1, "u1">> THEN 1 ELSE 0]
    /\ user_profiles = [u \in Users |-> IF u = "u1" THEN AdminProfile(u) ELSE NoProfile]
    /\ today = 0
    /\ req = EmptyBag
    /\ serial = FALSE
    /\ hist = <<>>

NextToggle ==
    \/ \E c \in Credentials : toggle_going_exists(2, c)
    \/ \E q \in Running : toggle_going_read(q)
    \/ \E q \in Running : toggle_going_delete(q)
    \/ \E q \in Running : toggle_going_insert(q)
    \/ \E q \in Running : toggle_going_insert_fails(q)
    \/ \E q \in Running : toggle_going_count(q)
    \/ \E q \in Running : toggle_going_write(q)
    \/ \E q \in Running : toggle_going_write_fails(q)

SpecToggle == InitToggle /\ [][NextToggle]_vars

\* serial runs of the attendance routes on listing 1 in each moderation
\* status, of this week's Friday or of last week's, with any roster and
\* any stored counter
InitStatus ==
    /\ \E st \in {"pending", "approved", "rejected"},
          w \in {get_current_weekend(0), get_current_weekend(0) - 7},
          n \in 0..MaxCount :
          parties = [p \in PartyIds |->
                       IF p = 1 THEN Listed(st, "friday", w, n) ELSE NoRow]
    /\ next_id = 2
    /\ \E going \in SUBSET Users :
          party_going = [k \in PartyIds \X Users |->
                           IF k[1] = 1 /\ k[2] \in going THEN 1 ELSE 0]
    /\ user_profiles = [u \in Users |-> NoProfile]
    /\ today = 0
    /\ req = EmptyBag
    /\ serial = TRUE
    /\ hist = <<>>

NextStatus == GoingStep
SpecStatus == InitStatus /\ [][NextStatus]_vars

\* anonymous increments alone, in any interleaving, on listing 1 with any
\* roster and any stored counter
InitAnonymous ==
    /\ \E n \in 0..MaxCount :
          parties = [p \in PartyIds |->
                       IF p = 1 THEN [FirstListing("u1") EXCEPT !.going_count = n] ELSE NoRow]
    /\ next_id = 2
    /\ \E going \in SUBSET Users :
          party_going = [k \in PartyIds \X Users |->
                           IF k[1] = 1 /\ k[2] \in going THEN 1 ELSE 0]
    /\ user_profiles = [u \in Users |-> NoProfile]
    /\ today = 0
    /\ req = EmptyBag
    /\ serial = FALSE
    /\ hist = <<>>

NextAnonymous ==
    \/ \E p \in PartyIds : increment_going_anonymous_exists(p)
    \/ \E q \in Running : increment_going_anonymous_count(q)
    \/ \E q \in Running : increment_going_anonymous_write(q)

SpecAnonymous == InitAnonymous /\ [][NextAnonymous]_vars

\* the same, with lookups by id in between
NextLookup ==
    \/ \E p \in PartyIds : get_party(p)
    \/ \E p \in PartyIds, c \in Credentials : delete_party_read(p, c)
    \/ \E q \in Running : delete_party_delete(q)
    \/ \E op \in {"approve", "reject"}, p \in PartyIds, c \in Credentials :
          moderate_gate(op, p, c)
    \/ \E q \in Running : moderate_read(q)
    \/ \E q \in Running : approve_party(q)
    \/ \E q \in Running : reject_party(q)

SpecLookup == InitListing /\ [][NextLookup]_vars

\* the admin-guarded routes on one pending listing; u1 is an administrator,
\* u2 has no profile or a profile without the flag
InitAdmin ==
    /\ parties = [p \in PartyIds |-> IF p = 1 THEN FirstListing("u2") ELSE NoRow]
    /\ next_id = 2
    /\ party_going = [k \in PartyIds \X Users |-> 0]
    /\ \E pr \in {NoProfile, [id |-> "u2", is_admin |-> FALSE, username |-> <<"u", "2">>]} :
          user_profiles = [u \in Users |-> IF u = "u1" THEN AdminProfile(u) ELSE pr]
    /\ today = 0
    /\ req = EmptyBag
    /\ serial = FALSE
    /\ hist = <<>>

NextAdmin ==
    \/ \E c \in Credentials : get_pending_parties_gate(c)
    \/ \E q \in Running : get_pending_parties(q)
    \/ \E op \in {"approve", "reject"}, p \in PartyIds, c \in Credentials :
          moderate_gate(op, p, c)
    \/ \E q \in Running : moderate_read(q)
    \/ \E q \in Running : approve_party(q)
    \/ \E q \in Running : reject_party(q)

SpecAdmin == InitAdmin /\ [][NextAdmin]_vars

\* the calendar moves on to the next day
Tick ==
    /\ today < MaxDay
    /\ today' = today + 1
    /\ UNCHANGED <<store, req, serial, hist>>

\* creation and moderation of a listing from the empty store, within one
\* day: a Saturday or the last day of the calendar, a weekday; u1 is an
\* administrator, u2 is not.  One listing is created: a
\* handler touches only the row of its own party_id.
InitCreate ==
    /\ parties = [p \in PartyIds |-> NoRow]
    /\ next_id = 1
    /\ party_going = [k \in PartyIds \X Users |-> 0]
    /\ user_profiles = [u \in Users |-> IF u = "u1" THEN AdminProfile(u)
                                      ELSE NewProfile(u, [NoData EXCEPT !.username = <<"u", "2">>])]
    /\ today \in {5, MaxDay}
    /\ req = EmptyBag
    /\ serial = FALSE
    /\ hist = <<>>

NextCreate ==
    \/ \E c \in Credentials, data \in Bodies : next_id = 1 /\ create_party_insert(c, data)
    \/ \E c \in Credentials, data \in Bodies : create_party_rejected(c, data)
    \/ \E op \in {"approve", "reject"}, p \in PartyIds, c \in Credentials :
          moderate_gate(op, p, c)
    \/ \E q \in Running : moderate_read(q)
    \/ \E q \in Running : approve_party(q)
    \/ \E q \in Running : reject_party(q)

SpecCreate == InitCreate /\ [][NextCreate]_vars

\* ----------------------------------------------------------- GET /parties
\* the day query parameter: "absent" stands for a request without it (None),
\* "" for ?day= with nothing after the equals sign
DayParams == {"absent", "", "friday", "saturday", "monday"}

\* if day: -- None and the empty string are both falsy
DayGiven(day) == day # "absent" /\ day # ""

\* .eq("status", "approved").eq("weekend_of", weekend) and, if day:, .eq("day", day)
Selected(ps, weekend, day) ==
    {p \in PartyIds : /\ ps[p].status = "approved"
                      /\ ps[p].weekend_of = weekend
                      /\ DayGiven(day) => ps[p].day = day}

\* .order("going_count", desc=True): every arrangement of S with no smaller
\* count before a larger one; the store orders equal counts as it likes
Ordered(ps, S) ==
    {r \in [1..Cardinality(S) -> S] :
        /\ \A i, j \in 1..Cardinality(S) : i # j => r[i] # r[j]
        /\ \A i, j \in 1..Cardinality(S) :
              i < j => ps[r[i]].going_count >= ps[r[j]].going_count}

\* Depends(get_current_user): the caller may be absent; one store call
get_parties(c, day) ==
    /\ \E r \in Ordered(parties, Selected(parties, get_current_weekend(today), day)) :
          Arrive([Respond(Fresh("list", 1, c, "none"), 200) EXCEPT
                    !.day = day, !.result = r])
    /\ UNCHANGED store

\* ------------------------------------------------ GET /parties/user/going
\* party_going.select("party_id").eq("user_id", user["id"]): the rows in the
\* order the store returns them
get_user_going_parties(c) ==
    /\ IF ~require_auth(c)
       THEN Arrive(Respond(Fresh("going", 1, c, "none"), 401))
       ELSE LET S == {p \in PartyIds : HasRow(party_going, p, c)}
            IN  \E r \in [1..Cardinality(S) -> S] :
                   /\ \A i, j \in 1..Cardinality(S) : i # j => r[i] # r[j]
                   /\ Arrive([Respond(Fresh("going", 1, c, "none"), 200) EXCEPT
                                !.result = r])
    /\ UNCHANGED store

\* the listing query over the days of the calendar: listing 1 is of this
\* week's Friday, listing 2 of this week's or of last week's
InitQuery ==
    /\ \E st1 \in {"approved", "pending"}, n1 \in 0..1,
          st2 \in {"pending", "approved", "rejected"}, d2 \in Days,
          w2 \in {get_current_weekend(0), get_current_weekend(0) - 7}, n2 \in 0..1 :
          parties = [p \in PartyIds |->
                       IF p = 1 THEN Listed(st1, "friday", get_current_weekend(0), n1)
                       ELSE IF p = 2 THEN Listed(st2, d2, w2, n2)
                       ELSE NoRow]
    /\ next_id = 3
    /\ party_going = [k \in PartyIds \X Users |-> 0]
    /\ user_profiles = [u \in Users |-> IF u = "u1" THEN AdminProfile(u) ELSE NoProfile]
    /\ today = 0
    /\ req = EmptyBag
    /\ serial = FALSE
    /\ hist = <<>>

NextQuery ==
    \/ \E c \in Credentials, day \in DayParams : get_parties(c, day)
    \/ Tick

SpecQuery == InitQuery /\ [][NextQuery]_vars

\* every route that resolves the caller from the Authorization header, on
\* the one listing that is created from the empty store; a request arrives
\* when no other is being handled
InitIdentity ==
    /\ parties = [p \in PartyIds |-> NoRow]
    /\ next_id = 1
    /\ party_going = [k \in PartyIds \X Users |-> 0]
    /\ user_profiles = [u \in Users |-> IF u = "u1" THEN AdminProfile(u) ELSE NoProfile]
    /\ today = 0
    /\ req = EmptyBag
    /\ serial = FALSE
    /\ hist = <<>>

\* no request is being handled
Idle == Running = {}

\* the callers that get_current_user resolves from the headers
Resolved == {get_current_user(h) : h \in Headers}

NextIdentity ==
    \/ \E c \in Resolved, day \in {"absent", "friday"} :
          Idle /\ get_parties(c, day)
    \/ \E c \in Resolved : Idle /\ get_me(c)
    \/ \E c \in Resolved : Idle /\ get_user_going_parties(c)
    \/ \E c \in Resolved :
          Idle /\ next_id = 1 /\ create_party_insert(c, PlainBody)
    \/ \E c \in Resolved : Idle /\ create_party_rejected(c, PlainBody)
    \/ \E c \in Resolved : Idle /\ toggle_going_exists(1, c)
    \/ \E q \in Running : toggle_going_read(q)
    \/ \E q \in Running : toggle_going_delete(q)
    \/ \E q \in Running : toggle_going_insert(q)
    \/ \E q \in Running : toggle_going_insert_fails(q)
    \/ \E q \in Running : toggle_going_count(q)
    \/ \E q \in Running : toggle_going_write(q)
    \/ \E q \in Running : toggle_going_write_fails(q)
    \/ \E c \in Resolved : Idle /\ delete_party_read(1, c)
    \/ \E q \in Running : delete_party_delete(q)
    \/ \E c \in Resolved :
          Idle /\ set_username_read(c,
                                    [NoData EXCEPT !.username = <<"a", "b">>])
    \/ \E q \in Running : set_username_update(q)
    \/ \E q \in Running : set_username_insert(q)
    \/ \E c \in Resolved : Idle /\ get_pending_parties_gate(c)
    \/ \E q \in Running : get_pending_parties(q)
    \/ \E c \in Resolved, op \in {"approve", "reject"} :
          Idle /\ moderate_gate(op, 1, c)
    \/ \E q \in Running : moderate_read(q)
    \/ \E q \in Running : approve_party(q)
    \/ \E q \in Running : reject_party(q)

SpecIdentity == InitIdentity /\ [][NextIdentity]_vars

\* set-username, by callers with and without a profile
InitProfile ==
    /\ parties = [p \in PartyIds |-> NoRow]
    /\ next_id = 1
    /\ party_going = [k \in PartyIds \X Users |-> 0]
    /\ user_profiles = [u \in Users |-> IF u = "u1" THEN AdminProfile(u) ELSE NoProfile]
    /\ today = 0
    /\ req = EmptyBag
    /\ serial = FALSE
    /\ hist = <<>>

NextProfile ==
    \/ \E c \in Credentials, data \in UsernameBodies : set_username_read(c, data)
    \/ \E q \in Running : set_username_update(q)
    \/ \E q \in Running : set_username_insert(q)

SpecProfile == InitProfile /\ [][NextProfile]_vars

\* signing in: signup by anyone, then set-username, with a username of two
\* letters, by the callers whose link has been verified
NextSignup ==
    \/ \E email \in Emails, raises \in BOOLEAN : signup(email, raises)
    \/ \E c \in Credentials :
          set_username_read(c, [NoData EXCEPT !.username = <<"a", "b">>])
    \/ \E q \in Running : set_username_update(q)
    \/ \E q \in Running : set_username_insert(q)

SpecSignup == InitProfile /\ [][NextSignup]_vars

\* two toggles on listing 1, whose roster is empty, by any two callers, both
\* past the existence check; the store answers every call.  The stored
\* counter starts at 0 or, after anonymous increments, above it.
TogglePair(a, b) ==
    SetToBag({Fresh("toggle", 1, a, "read")}) (+) SetToBag({Fresh("toggle", 1, b, "read")})

InitPair ==
    /\ \E n \in {0, MaxCount} :
          parties = [p \in PartyIds |->
                       IF p = 1 THEN [FirstListing("u1") EXCEPT !.going_count = n] ELSE NoRow]
    /\ next_id = 2
    /\ party_going = [k \in PartyIds \X Users |-> 0]
    /\ user_profiles = [u \in Users |-> NoProfile]
    /\ today = 0
    /\ \E a \in Users, b \in Users : req = TogglePair(a, b)
    /\ serial = FALSE
    /\ hist = <<>>

NextPair ==
    \/ \E q \in Running : toggle_going_read(q)
    \/ \E q \in Running : toggle_going_delete(q)
    \/ \E q \in Running : toggle_going_insert(q)
    \/ \E q \in Running : toggle_going_count(q)
    \/ \E q \in Running : toggle_going_write(q)

SpecPair == InitPair /\ [][NextPair]_vars

\* serial runs of the attendance routes: a request arrives only when no
\* other is being handled.
\* listing 1 with any roster and any stored counter: toggles, failed
\* counter writes and anonymous increments reach every such pair
InitSerial ==
    /\ \E n \in 0..MaxCount :
          parties = [p \in PartyIds |->
                       IF p = 1 THEN [FirstListing("u1") EXCEPT !.going_count = n] ELSE NoRow]
    /\ next_id = 2
    /\ \E going \in SUBSET Users :
          party_going = [k \in PartyIds \X Users |->
                           IF k[1] = 1 /\ k[2] \in going THEN 1 ELSE 0]
    /\ user_profiles = [u \in Users |-> NoProfile]
    /\ today = 0
    /\ req = EmptyBag
    /\ serial = TRUE
    /\ hist = <<>>

NextSerial == GoingStep
SpecSerial == InitSerial /\ [][NextSerial]_vars

\* the attendance routes together with the creation of the listing they act
\* on, from the empty store.  One listing is created: a handler touches only
\* the rows of its own party_id.
NextCounter ==
    \/ GoingStep
    \/ \E c \in Credentials : next_id = 1 /\ create_party_insert(c, PlainBody)
    \/ \E c \in Credentials : create_party_rejected(c, PlainBody)

SpecCounter == Init /\ [][NextCounter]_vars

\* ---------------------------------------------------------------- claims

IsToggle(q) == q.op = "toggle"
Answered(q, code) == q.pc = "done" /\ q.status = code

\* C1 (as stated): whenever a successful toggle completes, that is, its
\* going_count write has been applied, the listing's stored going_count
\* equals the number of party_going rows of the listing, under every
\* interleaving of toggle requests.
C1_CountEqualsRosterAtCompletion ==
    [][\A q \in Running :
          toggle_going_write(q) /\ parties'[q.party] # NoRow
             => parties'[q.party].going_count = CountRows(party_going', q.party)]_vars

\* C2 (as stated): two toggles by distinct users who are not in the roster
\* of a listing whose roster is empty run concurrently; once both have
\* answered 200, the listing's going_count is 2.
C2_TwoConcurrentTogglesCountTwo ==
    \A q1 \in Handled, q2 \in Handled :
        /\ IsToggle(q1) /\ IsToggle(q2)
        /\ q1.user # q2.user
        /\ Answered(q1, 200) /\ Answered(q2, 200)
        => parties[1].going_count = 2

IsModeration(q) == q.op \in {"approve", "reject"}
Target(q) == IF q.op = "approve" THEN "approved" ELSE "rejected"
Decided(p) == Exists(p) /\ parties[p].status # "pending"

\* C3 (as stated): once a listing's status is not pending it never changes
\* again, under any interleaving of approve and reject requests.
C3_StatusFinalOncePending ==
    [][\A p \in PartyIds :
          Decided(p) /\ parties'[p] # NoRow
             => parties'[p].status = parties[p].status]_vars

\* C4: an approve or reject request that finds the listing not pending
\* answers 400 and leaves the listings unchanged; one that found it pending
\* sets the status to its target and answers 200; and from then on the
\* listing is never pending again, so that a repeat of either call is a
\* call on a listing that is not pending.
C4_ModerateOnlyPending ==
    /\ [][\A q \in Running :
             /\ moderate_read(q) /\ Decided(q.party)
                   => /\ BagIn(Respond(q, 400), req')
                      /\ parties' = parties
             /\ (approve_party(q) \/ reject_party(q)) /\ Exists(q.party)
                   => /\ parties'[q.party].status = Target(q)
                      /\ BagIn(Respond(q, 200), req')]_vars
    /\ [][\A p \in PartyIds :
             Decided(p) /\ parties'[p] # NoRow => parties'[p].status # "pending"]_vars
    /\ [](\A q \in Handled :
             IsModeration(q) /\ Answered(q, 200) /\ Exists(q.party) => Decided(q.party))

\* one request has answered 200 and the listing carries its target status;
\* another request on the same listing has answered 400
C4_Witness ==
    \E q1 \in Handled, q2 \in Handled :
        /\ IsModeration(q1) /\ Answered(q1, 200)
        /\ IsModeration(q2) /\ Answered(q2, 400)
        /\ q1.party = q2.party
        /\ Exists(q1.party) /\ parties[q1.party].status = Target(q1)

\* C10: a delete request by an authenticated user who is not the listing's
\* created_by answers 403 and removes nothing, whatever the listing's
\* status; a listing row disappears only in the delete step of a request
\* made by its created_by.
C10_OnlyCreatorDeletes ==
    /\ [][\A p \in PartyIds, c \in Users :
             delete_party_read(p, c) /\ Exists(p) /\ parties[p].created_by # c
                => /\ BagIn(Respond(Fresh("delete", p, c, "none"), 403), req')
                   /\ parties' = parties]_vars
    /\ [][\A p \in PartyIds :
             Exists(p) /\ parties'[p] = NoRow
                => \E q \in Running :
                      /\ q.op = "delete" /\ q.party = p
                      /\ q.user = parties[p].created_by
                      /\ delete_party_delete(q)]_vars

\* a user who is not the creator has been answered 403 on a listing that is
\* no longer pending and is still stored
C10_Witness ==
    \E q \in Handled :
        /\ q.op = "delete" /\ Answered(q, 403)
        /\ Decided(q.party)
        /\ parties[q.party].created_by # q.user

\* C5: the roster holds at most one row for any (listing, user) pair.
C5_AtMostOneRowPerPair ==
    \A k \in PartyIds \X Users : party_going[k] <= 1

\* two requests of one user, both having read no row, are both past their
\* insert, and one row is stored
C5_Witness ==
    \E q \in Running :
        /\ IsToggle(q) /\ q.pc = "count" /\ ~q.is_currently_going
        /\ req[q] = 2
        /\ party_going[<<q.party, q.user>>] = 1

\* the toggles of user u that read no roster row and are past their insert
PastInsert(u) ==
    {q \in Handled : /\ IsToggle(q) /\ q.user = u
                     /\ ~q.is_currently_going
                     /\ q.pc \in {"count", "write", "done"}}
NumPastInsert(u) == BagCardinality([q \in PastInsert(u) |-> req[q]])

\* C6: when two concurrent toggles of one user both read no roster row and
\* both attempt the insert, the one that raises on the uniqueness rule goes
\* on as if it had inserted: exactly one row is stored for the user, and
\* each request that has answered answered 200 with going = true.
C6_DuplicateInsertSwallowed ==
    \A u \in Users :
        NumPastInsert(u) = 2
        => /\ party_going[<<1, u>>] = 1
           /\ \A q \in PastInsert(u) :
                 q.pc = "done" => q.status = 200 /\ RespGoing(q)

\* both requests of the user have answered 200 with going = true
C6_Witness ==
    \E u \in Users :
        /\ NumPastInsert(u) = 2
        /\ \A q \in PastInsert(u) : Answered(q, 200) /\ RespGoing(q)
        /\ party_going[<<1, u>>] = 1

\* C7 (as stated): two toggles of one user on one listing, run one after
\* the other with no request in between and both answered 200, return
\* opposite going values, the second equal to the membership before the
\* first, and the second's goingCount is the roster's cardinality before the
\* first.
C7_TwoTogglesRestore ==
    Len(hist) = 2 =>
        LET a == hist[1]
            b == hist[2]
        IN  /\ IsToggle(a.req) /\ IsToggle(b.req)
            /\ a.req.user = b.req.user /\ a.req.party = b.req.party
            /\ Answered(a.req, 200) /\ Answered(b.req, 200)
            => /\ RespGoing(b.req) = ~RespGoing(a.req)
               /\ RespGoing(b.req) = a.member0
               /\ RespGoingCount(b.req) = a.card0

\* C8: when a toggle arrives at a listing whose going_count differs from
\* its roster's cardinality, runs with no other request interleaved and
\* answers 200, going_count equals the roster's cardinality.
C8_SoloToggleRepairs ==
    hist # <<>> =>
        LET q == LastEntry.req
        IN  /\ IsToggle(q) /\ Answered(q, 200)
            /\ LastEntry.count0 # LastEntry.card0
            => parties[q.party].going_count = CountRows(party_going, q.party)

\* such a toggle has answered: the counter was above the roster's
\* cardinality when it arrived
C8_Witness ==
    /\ hist # <<>>
    /\ IsToggle(LastEntry.req) /\ Answered(LastEntry.req, 200)
    /\ LastEntry.count0 > LastEntry.card0
    /\ parties[LastEntry.req.party].going_count = LastEntry.card0 + 1

\* C9: going_count of every listing is at least 0 in every state, after any
\* listing creation, toggle or anonymous increment.
C9_GoingCountNonNegative ==
    \A p \in PartyIds : parties[p].going_count >= 0

\* on a listing made by create_party, a toggle that removed the caller's
\* row has answered goingCount 0 and the stored counter is 0
C9_Witness ==
    \E q \in Handled :
        /\ IsToggle(q) /\ Answered(q, 200) /\ q.is_currently_going
        /\ RespGoingCount(q) = 0
        /\ Exists(q.party) /\ parties[q.party].going_count = 0

IsAdminRoute(q) == q.op \in {"approve", "reject", "pending"}
Refusal(c) ==
    IF c \notin Users THEN 401
    ELSE IF user_profiles[c] = NoProfile \/ ~user_profiles[c].is_admin THEN 403
    ELSE 0

\* C11: a request to list pending, approve or reject whose caller has no
\* valid identity is answered 401, and one whose caller has no profile row
\* or a profile with is_admin false is answered 403, in its first step and
\* with the store unchanged; every such request that goes on to read or
\* write listings, or has answered anything but 401 or 403, is an
\* administrator's.
C11_AdminGate ==
    /\ [][\A c \in Credentials :
             Refusal(c) # 0
             => /\ get_pending_parties_gate(c)
                      => /\ BagIn(Respond(Fresh("pending", 1, c, "none"), Refusal(c)), req')
                         /\ UNCHANGED store
                /\ \A op \in {"approve", "reject"}, p \in PartyIds :
                      moderate_gate(op, p, c)
                      => /\ BagIn(Respond(Fresh(op, p, c, "none"), Refusal(c)), req')
                         /\ UNCHANGED store]_vars
    /\ [](\A q \in Handled :
             IsAdminRoute(q) /\ ~Answered(q, 401) /\ ~Answered(q, 403)
             => /\ q.user \in Users
                /\ user_profiles[q.user] # NoProfile
                /\ user_profiles[q.user].is_admin)

\* u2, whose profile lacks the flag, has been answered 403 while the
\* administrator's request goes on to the listings
C11_Witness ==
    \E q1 \in Handled, q2 \in Handled :
        /\ IsAdminRoute(q1) /\ Answered(q1, 403) /\ q1.user = "u2"
        /\ user_profiles["u2"] # NoProfile
        /\ IsAdminRoute(q2) /\ InFlight(q2) /\ q2.user = "u1"

\* C12: the admin flag of a profile never changes: a profile, once stored,
\* stays stored with the same id and is_admin; a profile that set-username
\* creates has is_admin false whatever the body carries.
C12_AdminFlagImmutable ==
    [][\A u \in Users :
          IF user_profiles[u] # NoProfile
          THEN /\ user_profiles'[u] # NoProfile
               /\ user_profiles'[u].is_admin = user_profiles[u].is_admin
               /\ user_profiles'[u].id = user_profiles[u].id
          ELSE user_profiles'[u] # NoProfile
               => /\ ~user_profiles'[u].is_admin
                  /\ user_profiles'[u].id = u]_vars

\* a request whose body carries is_admin = true has created u2's profile,
\* and the administrator has changed their username
C12_Witness ==
    /\ \E q \in Handled :
          /\ q.op = "username" /\ Answered(q, 200)
          /\ q.user = "u2" /\ q.data.is_admin
          /\ user_profiles["u2"] = [id |-> "u2", is_admin |-> FALSE, username |-> q.data.username]
    /\ user_profiles["u1"].username # AdminProfile("u1").username
    /\ user_profiles["u1"].is_admin

\* the Friday of the week of day d, for a week that runs Monday to Sunday
FridayOf(d) == d - (d % 7) + 4

\* C13: a listing appears only through create, which stores status pending,
\* going_count 0, created_by the authenticated caller and weekend_of the
\* current anchor Friday, whatever status, going_count or created_by the
\* body carries; a stored listing's status changes only in the write of an
\* approve or reject request of a caller who holds the admin flag, and
\* becomes approved only in an approve request's.
C13_ServerAssignsFields ==
    /\ [][\A p \in PartyIds :
             ~Exists(p) /\ parties'[p] # NoRow
             => /\ parties'[p].status = "pending"
                /\ parties'[p].going_count = 0
                /\ parties'[p].weekend_of = FridayOf(today)
                /\ \E q \in BagToSet(req') :
                      /\ q.op = "create" /\ Answered(q, 200) /\ q.party = p
                      /\ q.user \in Users
                      /\ parties'[p].created_by = q.user]_vars
    /\ [][\A p \in PartyIds :
             Exists(p) /\ parties'[p] # NoRow /\ parties'[p].status # parties[p].status
             => \E q \in Running :
                   /\ IsModeration(q) /\ q.party = p /\ q.pc = "write"
                   /\ approve_party(q) \/ reject_party(q)
                   /\ user_profiles[q.user].is_admin
                   /\ parties'[p].status = Target(q)]_vars

\* u2's listing, created from the body that carries status approved,
\* going_count 1 and created_by u1, stored as u2's with count 0 and approved
\* since by the administrator
C13_Witness ==
    \E p \in PartyIds :
        /\ Exists(p) /\ parties[p].day = "saturday"
        /\ parties[p].created_by = "u2" /\ parties[p].going_count = 0
        /\ parties[p].status = "approved"
        /\ parties[p].weekend_of = 4 /\ today = 5


\* the listings the query is to return for the day parameter of q
Expected(q) ==
    IF q.day = "absent"
    THEN {p \in PartyIds : parties[p].status = "approved"
                           /\ parties[p].weekend_of = FridayOf(today)}
    ELSE IF q.day \in Days
    THEN {p \in PartyIds : parties[p].status = "approved"
                           /\ parties[p].weekend_of = FridayOf(today)
                           /\ parties[p].day = q.day}
    ELSE {}

\* C14: the listing query answers 200, for every caller, with exactly the
\* approved listings of the current anchor Friday (of the given day, when
\* a day is given), each once, no smaller going_count before a larger one;
\* no pending or rejected listing is in the result, and a day value other
\* than friday and saturday gives the empty result.
C14_ListingQuery ==
    [][\A q \in BagToSet(req') :
          q.op = "list" /\ q \notin BagToSet(req)
          => /\ Answered(q, 200)
             /\ {q.result[i] : i \in 1..Len(q.result)} = Expected(q)
             /\ Len(q.result) = Cardinality(Expected(q))
             /\ \A i, j \in 1..Len(q.result) :
                   i < j => parties[q.result[i]].going_count
                            >= parties[q.result[j]].going_count
             /\ \A i \in 1..Len(q.result) :
                   parties[q.result[i]].status \notin {"pending", "rejected"}]_vars


\* the username bounds of the claim, and the details of set-username that
\* name the bound of n characters
MaxUsername == 50
DetailsNaming(n) == IF n = MinUsername THEN {TooShortDetail} ELSE {}

\* C15: an authenticated set-username request is answered by the length of
\* its username after trimming: below 2, a 400 whose detail names the
\* 2-character bound; above 50, a 400 whose detail names the 50-character
\* bound; from 2 to 50, a 200 unless the store raised; and the step that
\* answers 400 leaves the profile table as it was.
C15_UsernameLength ==
    /\ [](\A q \in Handled :
            q.op = "username" /\ ~InFlight(q) /\ q.user \in Users
            => LET n == Len(Strip(q.data.username))
               IN  /\ n < MinUsername
                      => Answered(q, 400) /\ q.detail \in DetailsNaming(MinUsername)
                   /\ n > MaxUsername
                      => Answered(q, 400) /\ q.detail \in DetailsNaming(MaxUsername)
                   /\ n \in MinUsername..MaxUsername
                      => Answered(q, 200) \/ (Answered(q, 400) /\ q.detail = StoreDetail))
    /\ [][\A q \in BagToSet(req') :
             q.op = "username" /\ Answered(q, 400) /\ q \notin BagToSet(req)
             => user_profiles' = user_profiles]_vars


\* C16: a create request of an authenticated caller whose title is longer
\* than 50 characters, or whose host is longer than 30, is answered 400 and
\* writes nothing to the store; one whose title has exactly 50 characters is
\* not refused for its body.
C16_TitleLength ==
    [][\A c \in Users, data \in Bodies :
          /\ (Len(data.title) > MaxTitle \/ Len(data.host) > MaxHost)
             /\ (create_party_rejected(c, data) \/ create_party_insert(c, data))
             => /\ store' = store
                /\ \E q \in BagToSet(req') :
                      q.op = "create" /\ q.user = c /\ Answered(q, 400)
          /\ Len(data.title) = MaxTitle /\ create_party_rejected(c, data)
             => \A q \in BagToSet(req') : q.op = "create" => ~Answered(q, 422)]_vars


\* the domain of an address: what follows its last "@"
DomainOf(s) ==
    LET at == CHOOSE i \in Positions(s, "@") : \A j \in Positions(s, "@") : j <= i
    IN  SubSeq(s, at + 1, Len(s))

\* C17: signup sends the magic link and answers 200 only for an address
\* whose domain is temple.edu in any case of its letters; for every such
\* address it calls the identity service and answers 200 unless that call
\* raises; an address of another domain is answered 400 without a call to
\* the identity service.
C17_SignupDomain ==
    \A q \in Handled :
        q.op = "signup" /\ ValidEmail(q.email)
        => IF Lower(DomainOf(q.email)) = TempleEdu
           THEN /\ q.otp_called
                /\ Answered(q, 200) \/ (Answered(q, 400) /\ q.detail = StoreDetail)
           ELSE Answered(q, 400) /\ ~q.otp_called

\* the address of fake-temple.edu has been refused without a call to the
\* identity service, after u2 has signed in and set a username
C17_Witness ==
    /\ \E q \in Handled :
          /\ q.op = "signup"
          /\ q.email = <<"u", "@", "f", "a", "k", "e", "-">> \o TempleEdu
          /\ Answered(q, 400) /\ ~q.otp_called
    /\ user_profiles["u2"] # NoProfile


\* C18: on every day of the calendar the anchor of get_current_weekend is
\* a Friday: from Monday to Friday it is today plus (4 - weekday) days, so
\* today itself on a Friday and never a day before today; on a Saturday it
\* is yesterday and on a Sunday the day before yesterday, so never a
\* Friday to come.
C18_AnchorIsFriday ==
    LET weekend == get_current_weekend(today)
    IN  /\ Weekday(weekend) = 4
        /\ Weekday(today) <= 4
           => weekend = today + (4 - Weekday(today)) /\ weekend >= today
        /\ Weekday(today) = 4 => weekend = today
        /\ Weekday(today) = 5 => weekend = today - 1
        /\ Weekday(today) = 6 => weekend = today - 2
        /\ Weekday(today) > 4 => weekend < today

\* the listing query has answered on a Sunday with listing 1, of the Friday
\* two days before
C18_Witness ==
    /\ Weekday(today) = 6
    /\ \E q \in Handled :
          /\ q.op = "list" /\ Answered(q, 200)
          /\ q.result = <<1>>
          /\ parties[1].weekend_of = today - 2


Max(a, b) == IF a >= b THEN a ELSE b

\* C19: an anonymous increment that runs with no other request interleaved
\* and answers 200 leaves going_count at the larger of the counter and the
\* roster's cardinality it found, plus 1, and no step of it changes the
\* roster; two of them in sequence, with no request in between, on a
\* counter that was at or above the roster's cardinality raise it by 2.
C19_AnonymousIncrement ==
    /\ [](hist # <<>> =>
            LET q == LastEntry.req
            IN  q.op = "anonymous" /\ Answered(q, 200)
                => /\ parties[q.party].going_count
                        = Max(LastEntry.count0, LastEntry.card0) + 1
                   /\ RespGoingCount(q) = parties[q.party].going_count
                   /\ CountRows(party_going, q.party) = LastEntry.card0)
    /\ [](Len(hist) = 2 =>
            LET a == hist[1].req
                b == hist[2].req
            IN  /\ a.op = "anonymous" /\ b.op = "anonymous" /\ a.party = b.party
                /\ Answered(a, 200) /\ Answered(b, 200)
                /\ hist[1].count0 >= hist[1].card0
                => parties[a.party].going_count = hist[1].count0 + 2)
    /\ [][(\E q \in BagToSet(req') : q.op = "anonymous" /\ q \notin BagToSet(req))
          => party_going' = party_going]_vars

\* two anonymous increments in sequence have both answered: the second
\* found the counter above the roster's cardinality and raised it again
C19_Witness ==
    /\ Len(hist) = 2
    /\ hist[1].req.op = "anonymous" /\ Answered(hist[1].req, 200)
    /\ hist[2].req.op = "anonymous" /\ Answered(hist[2].req, 200)
    /\ hist[1].count0 >= hist[1].card0
    /\ hist[2].count0 > hist[2].card0
    /\ parties[1].going_count = hist[1].count0 + 2
    /\ CountRows(party_going, 1) = hist[1].card0


\* a header from which no identity is resolved: none, one that does not
\* start with "Bearer ", one whose verification raises or finds no user
Unverified(h) == h.authorization # "Bearer" \/ h.get_user \notin Users

\* the first step of a request of caller c on a route that requires
\* authentication
ArrivesAuthenticated(c) ==
    \/ get_me(c)
    \/ get_user_going_parties(c)
    \/ create_party_insert(c, PlainBody)
    \/ create_party_rejected(c, PlainBody)
    \/ \E p \in PartyIds : toggle_going_exists(p, c)
    \/ \E p \in PartyIds : delete_party_read(p, c)
    \/ \E data \in UsernameBodies : set_username_read(c, data)
    \/ get_pending_parties_gate(c)
    \/ \E op \in {"approve", "reject"}, p \in PartyIds : moderate_gate(op, p, c)

\* C20: a request without an Authorization header, with one that does not
\* start with "Bearer ", with a token whose verification raises or with one
\* that verifies to no user resolves to no caller; on every route that
\* requires authentication it is answered 401 in a step that leaves the
\* store as it was and is its only step, and on the listing route it is
\* answered 200.
C20_IdentityResolution ==
    /\ [](\A h \in Headers : Unverified(h) => get_current_user(h) = Anonymous)
    /\ [][\A c \in {get_current_user(h) : h \in {x \in Headers : Unverified(x)}} :
             /\ ArrivesAuthenticated(c)
                => /\ store' = store
                   /\ \E q \in BagToSet(req') : Answered(q, 401)
                   /\ \A q \in BagToSet(req') : ~InFlight(q)
             /\ (\E day \in DayParams : get_parties(c, day))
                => \E q \in BagToSet(req') : q.op = "list" /\ Answered(q, 200)]_vars

\* with u2's listing stored and approved, a delete request without a
\* verified caller has been answered 401 and the listing is still there
C20_Witness ==
    /\ \E q \in Handled : q.op = "delete" /\ q.user = Anonymous /\ Answered(q, 401)
    /\ parties[1].status = "approved" /\ parties[1].created_by = "u2"
    /\ user_profiles["u2"] # NoProfile


\* C21: a toggle of an authenticated caller and an anonymous increment on an
\* id that no listing has are answered 404 in their first step, and that
\* step leaves the roster and every listing as they were.
C21_AbsentListingNotFound ==
    [][\A q \in BagToSet(req') :
          /\ q \notin BagToSet(req)
          /\ parties[q.party] = NoRow
          /\ (q.op = "toggle" /\ q.user \in Users) \/ q.op = "anonymous"
          => /\ Answered(q, 404)
             /\ party_going' = party_going /\ parties' = parties]_vars

\* u2's toggle on the absent listing 2 has been answered 404 while u1 is
\* in the roster of listing 1 with the counter at 1
C21_Witness ==
    /\ parties[2] = NoRow
    /\ \E q \in Handled : q.op = "toggle" /\ q.party = 2 /\ q.user = "u2" /\ Answered(q, 404)
    /\ HasRow(party_going, 1, "u1") /\ parties[1].going_count = 1
    /\ \A u \in Users : ~HasRow(party_going, 2, u)


\* C22: a lookup by id, which resolves no caller, answers 200 with the
\* listing whenever a row has the id, whether its status is pending,
\* approved or rejected, and 404 when no row has it; its step changes nothing
\* in the store.
C22_LookupById ==
    [][\A q \in BagToSet(req') :
          q.op = "get" /\ q \notin BagToSet(req)
          => /\ IF parties[q.party] # NoRow
                THEN Answered(q, 200) /\ q.result = <<parties[q.party]>>
                ELSE Answered(q, 404)
             /\ store' = store]_vars

\* a lookup has answered with listing 1, which has been rejected
C22_Witness ==
    \E q \in Handled :
        /\ q.op = "get" /\ q.party = 1 /\ Answered(q, 200)
        /\ q.result = <<parties[1]>>
        /\ parties[1].status = "rejected"


\* C23 (as stated): no step of an interleaving of anonymous increments
\* alone lowers the going_count of a listing.
C23_AnonymousNeverLowers ==
    [][\A p \in PartyIds : parties'[p].going_count >= parties[p].going_count]_vars


\* C23 (amended): in an interleaving of anonymous increments alone, every
\* increment computes a count greater than the counter value it read and
\* greater than the roster's cardinality, and its write stores that count:
\* going_count is never left at or below the roster's cardinality, but it
\* is not monotonic, and two increments that read the same value raise it
\* by 1 only.
C23_AnonymousWritesAboveRead ==
    /\ [][\A q \in Running :
             increment_going_anonymous_count(q)
             => \E q2 \in BagToSet(req') :
                   /\ q2.op = "anonymous" /\ q2.pc = "write"
                   /\ q2.new_count > q.current_total
                   /\ q2.new_count > CountRows(party_going, q.party)]_vars
    /\ [][\A q \in Running :
             increment_going_anonymous_write(q)
             => /\ parties'[q.party].going_count = q.new_count
                /\ parties'[q.party].going_count > CountRows(party_going', q.party)
                /\ party_going' = party_going]_vars

\* two anonymous increments on listing 1, whose roster is empty, have both
\* answered 200 with goingCount 1, and the stored counter is 1
C23_Witness ==
    /\ \A u \in Users : ~HasRow(party_going, 1, u)
    /\ parties[1].going_count = 1
    /\ \E q \in Handled :
          /\ q.op = "anonymous" /\ q.party = 1 /\ Answered(q, 200)
          /\ RespGoingCount(q) = 1
          /\ req[q] = 2


\* C24 (as stated): when a toggle that ran with no other request
\* interleaved has answered 200, the (listing, caller) row is in the roster
\* if it answered going = true and is not if it answered going = false,
\* also when the insert raised for a reason other than the uniqueness rule.
C24_GoingMatchesRoster ==
    hist # <<>> =>
        LET q == LastEntry.req
        IN  IsToggle(q) /\ Answered(q, 200)
            => RespGoing(q) = HasRow(party_going, q.party, q.user)


\* C26: a step of a toggle by user u on listing p leaves every roster row
\* other than (p, u), every other listing, the profiles, and every field of
\* listing p other than going_count as they were.
C26_ToggleFrame ==
    [][\A q \in Running :
          IsToggle(q) /\ CopiesIn(q, req') < CopiesIn(q, req)
          => /\ \A k \in DOMAIN party_going :
                   k # <<q.party, q.user>> => party_going'[k] = party_going[k]
             /\ \A p \in PartyIds : p # q.party => parties'[p] = parties[p]
             /\ parties'[q.party] = [parties[q.party] EXCEPT
                                       !.going_count = parties'[q.party].going_count]
             /\ user_profiles' = user_profiles /\ next_id' = next_id]_vars

\* u1 has left the roster of listing 2 again while u2 is still in it, and
\* listing 2 is as it was but for its counter
C26_Witness ==
    /\ \E q \in Handled :
          /\ IsToggle(q) /\ q.user = "u1" /\ q.party = 2
          /\ Answered(q, 200) /\ ~RespGoing(q)
    /\ ~HasRow(party_going, 2, "u1") /\ HasRow(party_going, 2, "u2")
    /\ parties[2] = Listed("approved", "saturday", get_current_weekend(0) - 7,
                           parties[2].going_count)
    /\ parties[1] = [FirstListing("u1") EXCEPT !.going_count = 1]
    /\ HasRow(party_going, 1, "u1") /\ ~HasRow(party_going, 1, "u2")


\* q is in the bag after the step as the request that arrived in it
Arrived(q) ==
    /\ CopiesIn(q, req') > CopiesIn(q, req)
    /\ \A x \in Running : CopiesIn(x, req') >= CopiesIn(x, req)

\* C27: the first check that fails decides the answer.  A delete is
\* answered 401 without a caller, else 404 without the listing, else 403
\* when the caller is not its creator.  An approve or reject is answered
\* 401 without a caller, else 403 without the admin flag whether or not the
\* listing exists, and only then, on reading the listing, 404 without it,
\* else 400 when it is not pending.
C27_CheckOrder ==
    /\ [][\A q \in BagToSet(req') :
             Arrived(q) /\ q.op = "delete"
             => IF q.user \notin Users THEN Answered(q, 401)
                ELSE IF parties[q.party] = NoRow THEN Answered(q, 404)
                ELSE IF parties[q.party].created_by # q.user THEN Answered(q, 403)
                ELSE q.pc = "delete"]_vars
    /\ [][\A q \in BagToSet(req') :
             Arrived(q) /\ IsModeration(q)
             => IF q.user \notin Users THEN Answered(q, 401)
                ELSE IF user_profiles[q.user] = NoProfile \/ ~user_profiles[q.user].is_admin
                     THEN Answered(q, 403)
                ELSE q.pc = "read"]_vars
    /\ [][\A q \in Running :
             IsModeration(q) /\ q.pc = "read" /\ CopiesIn(q, req') < CopiesIn(q, req)
             => \E q2 \in BagToSet(req') :
                   /\ q2.op = q.op /\ q2.party = q.party /\ q2.user = q.user
                   /\ IF parties[q.party] = NoRow THEN Answered(q2, 404)
                      ELSE IF parties[q.party].status # "pending" THEN Answered(q2, 400)
                      ELSE q2.pc = "write"]_vars

\* u2, who has no admin flag, has been answered 403 for an approve of
\* listing 1, which its creator has deleted
C27_Witness ==
    /\ parties[1] = NoRow
    /\ \E q \in Handled :
          q.op = "approve" /\ q.party = 1 /\ q.user = "u2" /\ Answered(q, 403)


\* C28: on an existing listing, whatever its status and its weekend_of, a
\* toggle of an authenticated caller and an anonymous increment are taken
\* up; run with no other request interleaved and answered 200, the toggle
\* answers the opposite of the caller's membership and leaves going_count
\* at the roster's cardinality, which has changed by the caller's row at
\* most, and the anonymous increment leaves the roster as it was and
\* going_count at the larger of counter and cardinality plus 1; status and
\* weekend_of stay as they were.
C28_AttendanceIgnoresStatus ==
    /\ [][\A q \in BagToSet(req') :
             /\ Arrived(q) /\ parties[q.party] # NoRow
             /\ (q.op = "toggle" /\ q.user \in Users) \/ q.op = "anonymous"
             => InFlight(q)]_vars
    /\ [](hist # <<>> =>
            LET q == LastEntry.req
                card == CountRows(party_going, q.party)
            IN  /\ IsToggle(q) /\ Answered(q, 200)
                   => /\ RespGoing(q) = ~LastEntry.member0
                      /\ parties[q.party].going_count = card
                      /\ RespGoingCount(q) = card
                      /\ IF LastEntry.member0 THEN card = LastEntry.card0 - 1
                         ELSE card \in {LastEntry.card0, LastEntry.card0 + 1}
                /\ q.op = "anonymous" /\ Answered(q, 200)
                   => /\ card = LastEntry.card0
                      /\ parties[q.party].going_count
                           = Max(LastEntry.count0, LastEntry.card0) + 1)
    /\ [][\A p \in PartyIds :
             /\ parties'[p].status = parties[p].status
             /\ parties'[p].weekend_of = parties[p].weekend_of]_vars

\* on the rejected listing of last week's Friday, u1's toggle has answered
\* going = true with the counter at the roster's cardinality
C28_Witness ==
    /\ parties[1].status = "rejected"
    /\ parties[1].weekend_of = get_current_weekend(today) - 7
    /\ hist # <<>>
    /\ IsToggle(LastEntry.req) /\ Answered(LastEntry.req, 200)
    /\ LastEntry.req.user = "u1" /\ RespGoing(LastEntry.req)
    /\ HasRow(party_going, 1, "u1")
    /\ parties[1].going_count = CountRows(party_going, 1)
    /\ LastEntry.count0 # LastEntry.card0


\* C29: every listing create stores has a title and a host that are the
\* stripped forms of the submitted ones, non-empty and within the bounds
\* 1..50 and 1..30; a create request whose title is whitespace only is
\* refused and stores nothing.  (category, doors_open and address go
\* through the same Field bounds and the same strip_whitespace validator as
\* title and host.)
C29_StoredFieldsStripped ==
    [][\A c \in Users, data \in Bodies :
          /\ create_party_insert(c, data)
             => LET row == parties'[next_id]
                IN  /\ row.title = Strip(data.title)
                    /\ row.host = Strip(data.host)
                    /\ Len(row.title) >= 1 /\ Len(row.title) <= MaxTitle
                    /\ Len(row.host) >= 1 /\ Len(row.host) <= MaxHost
          /\ Strip(data.title) = <<>>
             /\ (create_party_rejected(c, data) \/ create_party_insert(c, data))
             => /\ store' = store
                /\ \E q \in BagToSet(req') :
                      q.op = "create" /\ q.user = c /\ Answered(q, 422)]_vars

=============================================================================
